---- MODULE Spec2Model ----
(***************************************************************************)
(* State-machine model of scipy/interpolate/fitpack2.py: the object layer  *)
(* around the FITPACK routines of the dfitpack and fitpack modules.        *)
(*                                                                         *)
(* One object is followed through its life: `obj` is the spline object     *)
(* (none until a constructor returns), `last` is what the most recent      *)
(* operation did: the exception it raised, the warnings it issued, the     *)
(* external routines it invoked (in order) and what it returned.           *)
(*                                                                         *)
(* The external routines are opaque: each invocation returns a status code *)
(* and a representation chosen nondeterministically from bounded sets.     *)
(***************************************************************************)
EXTENDS Integers, Sequences, FiniteSets, TLC

VARIABLES obj, last

vars == <<obj, last>>

---------------------------------------------------------------------------
(* Bounds of the model. *)

\* number of distinguishable representations an external solver can return
MaxGen == 2
\* largest number of interior knots given to LSQUnivariateSpline
MaxKnots == 2
\* unused tail of the arrays a solver returns (nest - n)
Pad == 1
\* largest coordinate value tried in the grid arrays
MaxCoord == 2

---------------------------------------------------------------------------
(* Python values. *)

\* None and a present value, for optional arguments and tuple slots
None == <<>>
Some(v) == <<v>>

\* a float array entry that np.isfinite rejects
NaN == 99

\* an ext argument: an int, a str or None
PyInt(i) == [ty |-> "int", i |-> i, s |-> ""]
PyStr(s) == [ty |-> "str", i |-> 0, s |-> s]
PyNone == [ty |-> "None", i |-> 0, s |-> ""]

\* a diagnostic text: entry `code` of message table `tab` (formatted with
\* `aux` where the entry is a template), or a fixed text
Msg(tab, code) == [tab |-> tab, code |-> code, aux |-> <<>>]
Formatted(tab, code, aux) == [tab |-> tab, code |-> code, aux |-> aux]
Text(s) == [tab |-> s, code |-> 0, aux |-> <<>>]

NoExc == [type |-> "none", msg |-> Text("")]
Raise(type, msg) == [type |-> type, msg |-> msg]

\* one invocation of an external routine: its name, its integer control
\* argument (ext for splev, lwrk2 for surfit, nest for fpcurf1) and the
\* knot vector handed to it
Call(f, arg, t) == [f |-> f, arg |-> arg, t |-> t, ier |-> None]

\* one invocation of a fitting routine, with the status it returned
Fit(f, arg, t, ier) == [f |-> f, arg |-> arg, t |-> t, ier |-> Some(ier)]

\* dict.get(key, 'ier=%s' % key) on a message table with the given keys
MessagesGet(tab, keys, ier) ==
    IF ier \in keys THEN Msg(tab, ier) ELSE Msg("ier=", ier)

_curfit_messages == {1, 2, 3, 10}

_surfit_messages == {1, 2, 3, 4, 5, 10, -3}

_spherefit_messages == {1, 2, 3, 4, 5, 10, -3}

_spfit_messages == {1, 2, 3, 4, 5, 10, -3}

\* a variant of the table with the codes of 'raise' and 'const' exchanged
_extrap_modes_swapped ==
    { <<PyInt(0), 0>>, <<PyStr("extrapolate"), 0>>,
      <<PyInt(1), 1>>, <<PyStr("zeros"), 1>>,
      <<PyInt(2), 2>>, <<PyStr("raise"), 3>>,
      <<PyInt(3), 3>>, <<PyStr("const"), 2>> }

_extrap_modes ==
    { <<PyInt(0), 0>>, <<PyStr("extrapolate"), 0>>,
      <<PyInt(1), 1>>, <<PyStr("zeros"), 1>>,
      <<PyInt(2), 2>>, <<PyStr("raise"), 2>>,
      <<PyInt(3), 3>>, <<PyStr("const"), 3>> }

\* d[key] raises KeyError exactly when no entry has that key
HasKey(d, key) == \E p \in d : p[1] = key
Lookup(d, key) == (CHOOSE p \in d : p[1] = key)[2]

\* a[lo:hi] on a 0-based array held as a 1-based sequence
Slice(a, lo, hi) ==
    LET h == IF hi > Len(a) THEN Len(a) ELSE hi
        l == IF lo < 0 THEN 0 ELSE lo
    IN  IF h <= l THEN <<>> ELSE SubSeq(a, l + 1, h)

\* [v]*count
Repeat(v, count) == [i \in 1..count |-> v]

\* np.resize(a, size): a repeated cyclically up to the new size
Resize(a, size) == [i \in 1..size |-> a[((i - 1) % Len(a)) + 1]]

\* float comparison a > b; every comparison with NaN is False
PyGt(a, b) == a # NaN /\ b # NaN /\ a > b

\* np.isfinite(a).all()
AllFinite(a) == \A i \in 1..Len(a) : a[i] # NaN

---------------------------------------------------------------------------
(* Inputs tried. *)

\* x, y, w and bbox of a univariate fit
FitInputs ==
    { [x |-> <<1, 2, 3, 4, 5>>, y |-> <<0, 1, 0, 1, 0>>, w |-> None,
       bbox |-> <<None, None>>],
      [x |-> <<1, 2, 3, 4, 5>>, y |-> <<0, 1, 0, 1, 0>>,
       w |-> Some(<<1, 2, 1, 2, 1>>), bbox |-> <<Some(0), Some(6)>>],
      [x |-> <<1, 2, 3, 4, NaN>>, y |-> <<0, 1, 0, 1, 0>>,
       w |-> Some(<<1, 1, 1, 1, 1>>), bbox |-> <<None, None>>],
      [x |-> <<1, 2, 3, 4, 5>>, y |-> <<0, 1, 0, 1, 0>>,
       w |-> Some(<<1, NaN, 1, 1, 1>>), bbox |-> <<None, None>>] }

Degrees == {1, 3}

SmoothingFactors == {None, Some(0)}

NewSmoothingFactors == {2}

ExtArgs ==
    {PyInt(i) : i \in 0..4}
        \cup {PyStr(s) : s \in {"extrapolate", "zeros", "raise", "const", "bogus"}}
        \cup {PyNone}

BuiltinClasses ==
    {"UnivariateSpline", "InterpolatedUnivariateSpline", "LSQUnivariateSpline"}

\* a subclass defined outside the module
UserClass == "UserSpline"

\* status codes an external fitting routine can return
CurfitStatuses == {-2, -1, 0, 1, 2, 3, 10}

\* what one invocation of a curve fitting routine chooses: the
\* representation and the status
UniOuts(statuses) == [g : 1..MaxGen, ier : statuses]

\* the knot count of representation g for degree k in arrays of length nest:
\* at least the 2k+2 boundary knots, at most nest
KnotCount(k, g, nest) ==
    IF 2 * k + 1 + g <= nest THEN 2 * k + 1 + g ELSE nest

\* arrays of a returned representation
KnotArray(g, len) == [i \in 1..len |-> 10 * g + i]
CoefArray(g, len) == [i \in 1..len |-> 100 * g + i]
WorkArray(g, len) == [i \in 1..len |-> g]

---------------------------------------------------------------------------
(* Results of an operation. *)

NoObj == [kind |-> "none"]

\* what an operation did: the object afterwards, the exception raised, the
\* warnings issued, the external invocations made and the value returned
Result(o, exc, warns, calls, ret) ==
    [obj |-> o, exc |-> exc, warns |-> warns, calls |-> calls, ret |-> ret]

---------------------------------------------------------------------------
(* External curve fitting routines. *)

\* dfitpack.fpcurf0: the first fit; returns
\* x,y,w,xb,xe,k,s,n,t,c,fp,fpint,nrdata,ier with the defaults filled in
fpcurf0(x, y, k, w, xb, xe, s, out) ==
    [x |-> Some(x), y |-> Some(y),
     w |-> Some(IF w = None THEN Repeat(1, Len(x)) ELSE w[1]),
     xb |-> Some(IF xb = None THEN x[1] ELSE xb[1]),
     xe |-> Some(IF xe = None THEN x[Len(x)] ELSE xe[1]),
     k |-> k,
     s |-> Some(IF s = None THEN Len(x) ELSE s[1]),
     n |-> 2 * k + 1 + out.g,
     t |-> KnotArray(out.g, 2 * k + 1 + out.g + Pad),
     c |-> CoefArray(out.g, 2 * k + 1 + out.g + Pad),
     fp |-> Some(out.g - 1),
     fpint |-> Some(WorkArray(out.g, 2 * k + 1 + out.g + Pad)),
     nrdata |-> Some(WorkArray(out.g, 2 * k + 1 + out.g + Pad)),
     ier |-> Some(out.ier)]

\* dfitpack.fpcurf1: continue a fit in the arrays given (nest = len(t))
fpcurf1(args, out) ==
    [args EXCEPT !.n = KnotCount(args.k, out.g, Len(args.t)),
                 !.t = KnotArray(out.g, Len(args.t)),
                 !.c = CoefArray(out.g, Len(args.t)),
                 !.fp = Some(out.g - 1),
                 !.fpint = Some(WorkArray(out.g, Len(args.t))),
                 !.nrdata = Some(WorkArray(out.g, Len(args.t))),
                 !.ier = Some(out.ier)]

\* dfitpack.fpcurfm1: least-squares fit on the knots given; s is -1
fpcurfm1(x, y, k, t, w, xb, xe, out) ==
    [x |-> Some(x), y |-> Some(y),
     w |-> Some(IF w = None THEN Repeat(1, Len(x)) ELSE w[1]),
     xb |-> Some(xb), xe |-> Some(xe), k |-> k,
     s |-> Some(-1),
     n |-> Len(t),
     t |-> t,
     c |-> CoefArray(out.g, Len(t)),
     fp |-> Some(out.g - 1),
     fpint |-> Some(WorkArray(out.g, Len(t))),
     nrdata |-> Some(WorkArray(out.g, Len(t))),
     ier |-> Some(out.ier)]

---------------------------------------------------------------------------
(* class UnivariateSpline *)

\* a fresh instance of class cls, nothing assigned yet
NewSpline(cls) ==
    [kind |-> "uni", class |-> cls, spline_class |-> "unset",
     data |-> None, eval_args |-> None, ext |-> None]

\* _extrap_modes[ext] inside try/except KeyError: the canonical code, or
\* None when the lookup raises KeyError
ResolveExt(ext) ==
    IF HasKey(_extrap_modes, ext) THEN Some(Lookup(_extrap_modes, ext)) ELSE None

UnknownExt == Raise("ValueError", Text("Unknown extrapolation mode"))

\* a variant of _set_class that reassigns the class of every object
_set_class_always(self, cls) ==
    [self EXCEPT !.spline_class = cls, !.class = cls]

\* UnivariateSpline._set_class
_set_class(self, cls) ==
    [self EXCEPT !.spline_class = cls,
                 !.class = IF self.class \in BuiltinClasses THEN cls ELSE @]

\* a variant of the error branch that issues no warning
CurfitWarning_silent(ier) == <<>>

\* the warning _reset_class issues in its error branch
CurfitWarning(ier) == <<MessagesGet("curfit", _curfit_messages, ier)>>

\* a variant of _reset_class in which every status without a target class
\* resets the class to UnivariateSpline
_reset_class_fresh(self) ==
    LET data == self.data
        ier == data.ier[1]
        self1 == [self EXCEPT !.eval_args =
                     [t |-> Slice(data.t, 0, data.n),
                      c |-> Slice(data.c, 0, data.n), k |-> data.k]]
    IN  IF ier = 0 THEN [obj |-> _set_class(self1, "UnivariateSpline"), warns |-> <<>>]
        ELSE IF ier = -1
        THEN [obj |-> _set_class(self1, "InterpolatedUnivariateSpline"),
              warns |-> <<>>]
        ELSE IF ier = -2
        THEN [obj |-> _set_class(self1, "LSQUnivariateSpline"), warns |-> <<>>]
        ELSE [obj |-> IF ier = 1 THEN _set_class(self1, "LSQUnivariateSpline")
                      ELSE _set_class(self1, "UnivariateSpline"),
              warns |-> CurfitWarning(ier)]

\* UnivariateSpline._reset_class: the object and the warnings issued
_reset_class(self) ==
    LET data == self.data
        ier == data.ier[1]
        self1 == [self EXCEPT !.eval_args =
                     [t |-> Slice(data.t, 0, data.n),
                      c |-> Slice(data.c, 0, data.n), k |-> data.k]]
    IN  IF ier = 0 THEN [obj |-> self1, warns |-> <<>>]
        ELSE IF ier = -1
        THEN [obj |-> _set_class(self1, "InterpolatedUnivariateSpline"),
              warns |-> <<>>]
        ELSE IF ier = -2
        THEN [obj |-> _set_class(self1, "LSQUnivariateSpline"), warns |-> <<>>]
        ELSE [obj |-> IF ier = 1 THEN _set_class(self1, "LSQUnivariateSpline")
                      ELSE self1,
              warns |-> CurfitWarning(ier)]

\* an operation that ends after _reset_class without raising
Fitted(rc, calls) == Result(rc.obj, NoExc, rc.warns, calls, None)

\* the nest _reset_nest chooses when called with nest=None
MaxNest(data) == Len(data.x[1]) + data.k + 1

\* UnivariateSpline._reset_nest(data), nest=None as at both call sites: the
\* arguments of the second fpcurf1 invocation
ResetNestArgs(data) ==
    [data EXCEPT !.t = Resize(data.t, MaxNest(data)),
                 !.c = Resize(data.c, MaxNest(data)),
                 !.fpint = Some(Resize(data.fpint[1], MaxNest(data))),
                 !.nrdata = Some(Resize(data.nrdata[1], MaxNest(data)))]

_reset_nest(data, out) == fpcurf1(ResetNestArgs(data), out)

\* a variant that runs the fit again after every status but 0
NestTooSmall_any(data) == data.ier # Some(0)

\* `if data[-1] == 1`: the fit is run again with the largest nest
NestTooSmall(data) == data.ier = Some(1)

\* the data the object ends up with after a first invocation, and the
\* invocations made after it
Refit(data0, out1) ==
    IF NestTooSmall(data0)
    THEN [data |-> _reset_nest(data0, out1),
          calls |-> <<Fit("fpcurf1", MaxNest(data0), <<>>, out1.ier)>>]
    ELSE [data |-> data0, calls |-> <<>>]

\* a variant that stores the data and leaves out _reset_class
StoreFit_stale(self, first, fit) ==
    Fitted([obj |-> [self EXCEPT !.data = fit.data], warns |-> <<>>],
           first \o fit.calls)

\* the end of a fitting operation: `self._data = data` (after the
\* invocations `first` and fit.calls), then `self._reset_class()`
StoreFit(self, first, fit) ==
    Fitted(_reset_class([self EXCEPT !.data = fit.data]), first \o fit.calls)

\* UnivariateSpline.__init__
UnivariateSpline_init(cls, x, y, w, bbox, k, s, ext, check_finite, out0, out1) ==
    IF check_finite /\ (~AllFinite(x) \/ ~AllFinite(y))
    THEN Result(NoObj,
                Raise("ValueError", Text("x and y array must not contain NaNs or infs.")),
                <<>>, <<>>, None)
    ELSE IF ResolveExt(ext) = None
    THEN Result(NoObj, UnknownExt, <<>>, <<>>, None)
    ELSE StoreFit([NewSpline(cls) EXCEPT !.ext = ResolveExt(ext)],
                  <<Fit("fpcurf0", 0, <<>>, out0.ier)>>,
                  Refit(fpcurf0(x, y, k, w, bbox[1], bbox[2], s, out0), out1))

\* a variant of set_smoothing_factor that refits fixed-knot splines too
set_smoothing_factor_always(self, s, out0, out1, fail) ==
    StoreFit(self, <<Fit("fpcurf1", Len(self.data.t), <<>>, out0.ier)>>,
             Refit(fpcurf1([self.data EXCEPT !.s = Some(s)], out0), out1))

\* the exception of an external routine that raises instead of returning
SolverError == Raise("error", Text("dfitpack"))

\* a variant of set_smoothing_factor that stores the new s in _data before
\* it invokes the solver
set_smoothing_factor_eager(self, s, out0, out1, fail) ==
    IF self.data.s = Some(-1)
    THEN Result(self, NoExc,
                <<Text("smoothing factor unchanged forLSQ spline with fixed knots")>>,
                <<>>, None)
    ELSE IF fail = "first"
    THEN Result([self EXCEPT !.data.s = Some(s)], SolverError, <<>>,
                <<Call("fpcurf1", Len(self.data.t), <<>>)>>, None)
    ELSE IF fail = "rerun" /\ out0.ier = 1
    THEN Result([self EXCEPT !.data.s = Some(s)], SolverError, <<>>,
                <<Fit("fpcurf1", Len(self.data.t), <<>>, out0.ier),
                  Call("fpcurf1", MaxNest(self.data), <<>>)>>, None)
    ELSE StoreFit(self, <<Fit("fpcurf1", Len(self.data.t), <<>>, out0.ier)>>,
                  Refit(fpcurf1([self.data EXCEPT !.s = Some(s)], out0), out1))

\* UnivariateSpline.set_smoothing_factor; fail says whether dfitpack.fpcurf1
\* raises: "none", "first" (the invocation in set_smoothing_factor) or
\* "rerun" (the invocation in _reset_nest, reached after a first status 1);
\* the exception propagates and nothing has been assigned to self
set_smoothing_factor(self, s, out0, out1, fail) ==
    IF self.data.s = Some(-1)
    THEN Result(self, NoExc,
                <<Text("smoothing factor unchanged forLSQ spline with fixed knots")>>,
                <<>>, None)
    ELSE IF fail = "first"
    THEN Result(self, SolverError, <<>>,
                <<Call("fpcurf1", Len(self.data.t), <<>>)>>, None)
    ELSE IF fail = "rerun" /\ NestTooSmall(fpcurf1([self.data EXCEPT !.s = Some(s)], out0))
    THEN Result(self, SolverError, <<>>,
                <<Fit("fpcurf1", Len(self.data.t), <<>>, out0.ier),
                  Call("fpcurf1", MaxNest(self.data), <<>>)>>, None)
    ELSE StoreFit(self, <<Fit("fpcurf1", Len(self.data.t), <<>>, out0.ier)>>,
                  Refit(fpcurf1([self.data EXCEPT !.s = Some(s)], out0), out1))

\* an external evaluation that leaves the object alone: it returns the
\* routine's value or raises exc
Evaluated(self, call, exc) ==
    Result(self, exc, <<>>, <<call>>, IF exc = NoExc THEN Some(call) ELSE None)

\* the ext handed to splev by __call__: the stored code when ext is None,
\* else the canonical code of the argument (None when it is unknown)
CallExt(self, ext) == IF ext = PyNone THEN self.ext ELSE ResolveExt(ext)

\* a variant of __call__ that keeps the per-call ext in the object
sticky__call__(self, x, nu, ext, ev) ==
    IF Len(x) = 0 THEN Result(self, NoExc, <<>>, <<>>, Some(<<>>))
    ELSE IF CallExt(self, ext) = None
    THEN Result(self, UnknownExt, <<>>, <<>>, None)
    ELSE Evaluated([self EXCEPT !.ext = CallExt(self, ext)],
                   Call("splev", CallExt(self, ext)[1], self.eval_args.t),
                   IF ev = "ok" THEN NoExc ELSE Raise("ValueError", Text("splev")))

\* UnivariateSpline.__call__; ev is what fitpack.splev does: "ok" or "error"
\* (it raises ValueError, as for a point outside the knots under ext=2)
__call__(self, x, nu, ext, ev) ==
    IF Len(x) = 0 THEN Result(self, NoExc, <<>>, <<>>, Some(<<>>))
    ELSE IF CallExt(self, ext) = None
    THEN Result(self, UnknownExt, <<>>, <<>>, None)
    ELSE Evaluated(self, Call("splev", CallExt(self, ext)[1], self.eval_args.t),
                   IF ev = "ok" THEN NoExc ELSE Raise("ValueError", Text("splev")))

\* a variant of get_knots that returns the boundary knots too
get_knots_all(self) ==
    Result(self, NoExc, <<>>, <<>>, Some(Slice(self.data.t, 0, self.data.n)))

\* UnivariateSpline.get_knots
get_knots(self) ==
    Result(self, NoExc, <<>>, <<>>,
           Some(Slice(self.data.t, self.data.k, self.data.n - self.data.k)))

\* UnivariateSpline.get_coeffs
get_coeffs(self) ==
    Result(self, NoExc, <<>>, <<>>,
           Some(Slice(self.data.c, 0, self.data.n - self.data.k - 1)))

\* UnivariateSpline.get_residual
get_residual(self) == Result(self, NoExc, <<>>, <<>>, self.data.fp)

\* UnivariateSpline.integral
integral(self, a, b) == Evaluated(self, Call("splint", 0, self.eval_args.t), NoExc)

\* UnivariateSpline.derivatives; ier is the status dfitpack.spalde returns
derivatives(self, x, ier) ==
    Evaluated(self, Call("spalde", 0, self.eval_args.t),
              IF ier # 0
              THEN Raise("ValueError", Msg("Error code returned by spalde", ier))
              ELSE NoExc)

\* a variant of roots that returns the whole output array of the root finder
roots_all(self, z, m, ier) ==
    IF self.data.k = 3
    THEN IF ier # 0
         THEN Result(self, Raise("ValueError", Msg("Error code returned by spalde", ier)),
                     <<>>, <<Call("sproot", 0, self.eval_args.t)>>, None)
         ELSE Result(self, NoExc, <<>>, <<Call("sproot", 0, self.eval_args.t)>>, Some(z))
    ELSE Result(self, Raise("NotImplementedError",
                            Text("finding roots unsupported for non-cubic splines")),
                <<>>, <<>>, None)

\* UnivariateSpline.roots; z, m, ier are what dfitpack.sproot returns
roots(self, z, m, ier) ==
    IF self.data.k = 3
    THEN IF ier # 0
         THEN Result(self, Raise("ValueError", Msg("Error code returned by spalde", ier)),
                     <<>>, <<Call("sproot", 0, self.eval_args.t)>>, None)
         ELSE Result(self, NoExc, <<>>, <<Call("sproot", 0, self.eval_args.t)>>,
                     Some(Slice(z, 0, m)))
    ELSE Result(self, Raise("NotImplementedError",
                            Text("finding roots unsupported for non-cubic splines")),
                <<>>, <<>>, None)

\* a variant of _from_tck that gives the new spline the default ext
_from_tck_default_ext(cls, tck, ext) ==
    [kind |-> "uni", class |-> cls, spline_class |-> "unset",
     data |-> [x |-> None, y |-> None, w |-> None, xb |-> None, xe |-> None,
               k |-> tck.k, s |-> None, n |-> Len(tck.t), t |-> tck.t,
               c |-> tck.c, fp |-> None, fpint |-> None, nrdata |-> None,
               ier |-> None],
     eval_args |-> tck, ext |-> Some(0)]

\* UnivariateSpline._from_tck
_from_tck(cls, tck, ext) ==
    [kind |-> "uni", class |-> cls, spline_class |-> "unset",
     data |-> [x |-> None, y |-> None, w |-> None, xb |-> None, xe |-> None,
               k |-> tck.k, s |-> None, n |-> Len(tck.t), t |-> tck.t,
               c |-> tck.c, fp |-> None, fpint |-> None, nrdata |-> None,
               ier |-> None],
     eval_args |-> tck, ext |-> ext]

\* fitpack.splder: the tck of the n-th derivative (n <= k)
splder(tck, n) ==
    [t |-> Slice(tck.t, n, Len(tck.t) - n),
     c |-> Slice(tck.c, 0, Len(tck.c) - n), k |-> tck.k - n]

\* fitpack.splantider: the tck of the n-th antiderivative
splantider(tck, n) ==
    [t |-> Repeat(tck.t[1], n) \o tck.t \o Repeat(tck.t[Len(tck.t)], n),
     c |-> tck.c \o Repeat(0, n), k |-> tck.k + n]

\* a variant that differentiates the receiver in place
derivative_inplace(self, n) ==
    IF n > self.eval_args.k
    THEN Result(self, Raise("ValueError", Text("splder")), <<>>,
                <<Call("splder", n, self.eval_args.t)>>, None)
    ELSE Result([self EXCEPT !.eval_args = splder(self.eval_args, n)], NoExc, <<>>,
                <<Call("splder", n, self.eval_args.t)>>, Some(self))

\* UnivariateSpline.derivative; splder raises ValueError when n > k
derivative(self, n) ==
    IF n > self.eval_args.k
    THEN Result(self, Raise("ValueError", Text("splder")), <<>>,
                <<Call("splder", n, self.eval_args.t)>>, None)
    ELSE Result(self, NoExc, <<>>, <<Call("splder", n, self.eval_args.t)>>,
                Some(_from_tck("UnivariateSpline", splder(self.eval_args, n),
                               self.ext)))

\* UnivariateSpline.antiderivative
antiderivative(self, n) ==
    Result(self, NoExc, <<>>, <<Call("splantider", n, self.eval_args.t)>>,
           Some(_from_tck("UnivariateSpline", splantider(self.eval_args, n),
                          self.ext)))

---------------------------------------------------------------------------
(* class InterpolatedUnivariateSpline, class LSQUnivariateSpline *)

\* `not np.isfinite(a).all() or not np.isfinite(b).all() or ...` over the
\* arguments in order: "ValueError" at the first array with a NaN or inf,
\* "TypeError" when np.isfinite is reached with None, else "ok"
RECURSIVE FiniteChain(_)
FiniteChain(arrays) ==
    IF arrays = <<>> THEN "ok"
    ELSE IF Head(arrays) = None THEN "TypeError"
    ELSE IF ~AllFinite(Head(arrays)[1]) THEN "ValueError"
    ELSE FiniteChain(Tail(arrays))

\* the exception a failed finiteness check raises
FiniteExc(kind, text) ==
    IF kind = "TypeError" THEN Raise("TypeError", Text("ufunc 'isfinite' not supported"))
    ELSE Raise("ValueError", Text(text))

\* the end of the two subclass constructors, after _reset_class:
\* `self.ext = _extrap_modes[ext]`, or ValueError and no object
SetExt(rc, calls, extcode) ==
    IF extcode = None THEN Result(NoObj, UnknownExt, rc.warns, calls, None)
    ELSE Result([rc.obj EXCEPT !.ext = extcode], NoExc, rc.warns, calls, None)

\* check_finite: the outcome of the finiteness test of the arrays given
FiniteCheck(check_finite, arrays) ==
    IF check_finite THEN FiniteChain(arrays) ELSE "ok"

\* InterpolatedUnivariateSpline.__init__
InterpolatedUnivariateSpline_init(cls, x, y, w, bbox, k, ext, check_finite, out0) ==
    IF FiniteCheck(check_finite, <<Some(x), Some(y), w>>) # "ok"
    THEN Result(NoObj,
                FiniteExc(FiniteCheck(check_finite, <<Some(x), Some(y), w>>),
                          "Input must not contain NaNs or infs."),
                <<>>, <<>>, None)
    ELSE SetExt(_reset_class([NewSpline(cls) EXCEPT
                    !.data = fpcurf0(x, y, k, w, bbox[1], bbox[2], Some(0), out0)]),
                <<Fit("fpcurf0", 0, <<>>, out0.ier)>>, ResolveExt(ext))

\* float subtraction; NaN propagates
PySub(a, b) == IF a = NaN \/ b = NaN THEN NaN ELSE a - b

\* bbox[i] with the default taken from x
LsqXb(x, bbox) == IF bbox[1] = None THEN x[1] ELSE bbox[1][1]
LsqXe(x, bbox) == IF bbox[2] = None THEN x[Len(x)] ELSE bbox[2][1]

\* a variant that repeats the boundary knots k times only
KnotVector_k(xb, xe, t, k) == Repeat(xb, k) \o t \o Repeat(xe, k)

\* concatenate(([xb]*(k+1), t, [xe]*(k+1)))
KnotVector(xb, xe, t, k) == Repeat(xb, k + 1) \o t \o Repeat(xe, k + 1)

\* a variant of the knot check that accepts repeated knots
KnotCheck_nonstrict(t, k) ==
    \A i \in (k + 1)..(Len(t) - k - 1) : ~PyGt(PySub(t[i], t[i + 1]), 0)

\* alltrue(t[k+1:n-k]-t[k:n-k-1] > 0, axis=0) on the padded knot vector
KnotCheck(t, k) ==
    LET n == Len(t)
        hi == Slice(t, k + 1, n - k)
        lo == Slice(t, k, n - k - 1)
    IN  \A i \in 1..Len(hi) : PyGt(PySub(hi[i], lo[i]), 0)

\* `self._data = data[:-3] + (None, None, data[-1])`
LsqData(data) == [data EXCEPT !.fpint = None, !.nrdata = None]

\* LSQUnivariateSpline.__init__ from the padded knot vector t on; chec is
\* what dfitpack.fpchec returns
LSQUnivariateSpline_fit(cls, x, y, t, w, xb, xe, k, ext, chec, out0) ==
    IF ~KnotCheck(t, k)
    THEN Result(NoObj,
                Raise("ValueError",
                      Text("Interior knots t must satisfy Schoenberg-Whitney conditions")),
                <<>>, <<>>, None)
    ELSE IF chec # 0
    THEN Result(NoObj, Raise("ValueError", Text("_fpchec_error_string")),
                <<>>, <<Fit("fpchec", 0, t, chec)>>, None)
    ELSE SetExt(_reset_class([NewSpline(cls) EXCEPT
                    !.data = LsqData(fpcurfm1(x, y, k, t, w, xb, xe, out0))]),
                <<Fit("fpchec", 0, t, chec), Fit("fpcurfm1", 0, t, out0.ier)>>,
                ResolveExt(ext))

\* LSQUnivariateSpline.__init__
LSQUnivariateSpline_init(cls, x, y, t, w, bbox, k, ext, check_finite, chec, out0) ==
    IF FiniteCheck(check_finite, <<Some(x), Some(y), w, Some(t)>>) # "ok"
    THEN Result(NoObj,
                FiniteExc(FiniteCheck(check_finite, <<Some(x), Some(y), w, Some(t)>>),
                          "Input(s) must not contain NaNs or infs."),
                <<>>, <<>>, None)
    ELSE LSQUnivariateSpline_fit(cls, x, y,
                                 KnotVector(LsqXb(x, bbox), LsqXe(x, bbox), t, k),
                                 w, LsqXb(x, bbox), LsqXe(x, bbox), k, ext, chec, out0)

---------------------------------------------------------------------------
(* Bivariate splines: external surface fitting routines. *)

\* np.pi, in the unit of the angle arrays (a quarter turn)
PI == 2

\* status codes a surface fitting routine can return; 12 stands for a
\* status above 10 (the lwrk2 it asks for)
SurfStatuses == {-4, -3, -2, -1, 0, 1, 2, 3, 4, 5, 10, 12}

SurfOuts(statuses) == [g : 1..MaxGen, ier : statuses]

\* the return values [0, -1, -2] of a normal return
NormalReturn == {0, -1, -2}

\* what a surface fitting routine that chooses its knots returns for
\* degrees kx, ky: nx,tx,ny,ty,c,fp,ier
SurfFit(kx, ky, out) ==
    [nx |-> 2 * kx + 1 + out.g, ny |-> 2 * ky + 1 + out.g,
     tx |-> KnotArray(out.g, 2 * kx + 1 + out.g + Pad),
     ty |-> KnotArray(out.g, 2 * ky + 1 + out.g + Pad),
     c |-> CoefArray(out.g, (kx + out.g) * (ky + out.g) + Pad),
     fp |-> out.g - 1, ier |-> out.ier]

\* what a least-squares surface routine returns for the knot arrays given:
\* tx,ty with the boundary knots filled in, c, fp, ier
FillKnots(t, k, b, e) ==
    [i \in 1..Len(t) |-> IF i <= k + 1 THEN b
                         ELSE IF i > Len(t) - k - 1 THEN e ELSE t[i]]

SeqMin(a) == CHOOSE v \in {a[i] : i \in 1..Len(a)} : \A i \in 1..Len(a) : v <= a[i]
SeqMax(a) == CHOOSE v \in {a[i] : i \in 1..Len(a)} : \A i \in 1..Len(a) : v >= a[i]

\* an end of the approximation domain: the bbox entry, or by default the
\* extreme of the data
DomainEnd(box, default) == IF box = None THEN default ELSE box[1]

SurfLsq(x, y, tx, ty, kx, ky, bbox, out) ==
    [tx |-> FillKnots(tx, kx, DomainEnd(bbox[1], SeqMin(x)),
                      DomainEnd(bbox[2], SeqMax(x))),
     ty |-> FillKnots(ty, ky, DomainEnd(bbox[3], SeqMin(y)),
                      DomainEnd(bbox[4], SeqMax(y))),
     c |-> CoefArray(out.g, (Len(tx) - kx - 1) * (Len(ty) - ky - 1)),
     fp |-> out.g - 1, ier |-> out.ier]

\* np.zeros((n,)) with `interior` assigned to [lo:n-lo]
ZerosWith(n, lo, interior) ==
    [i \in 1..n |-> IF i > lo /\ i <= n - lo THEN interior[i - lo] ELSE 0]

---------------------------------------------------------------------------
(* class BivariateSpline and its subclasses *)

NewSurface(cls, fp, tx, ty, c, degrees) ==
    [kind |-> "biv", class |-> cls, fp |-> fp,
     tck |-> [tx |-> tx, ty |-> ty, c |-> c], degrees |-> degrees]

\* the warning SmoothBivariateSpline issues for a status that is no normal
\* return
SurfitWarning(ier) == <<MessagesGet("surfit", _surfit_messages, ier)>>

\* SmoothBivariateSpline.__init__ after the (last) surfit_smth invocation
SmoothBivariateSpline_store(kx, ky, fit, calls) ==
    Result(NewSurface("SmoothBivariateSpline", fit.fp, Slice(fit.tx, 0, fit.nx),
                      Slice(fit.ty, 0, fit.ny),
                      Slice(fit.c, 0, (fit.nx - kx - 1) * (fit.ny - ky - 1)),
                      <<kx, ky>>),
           NoExc,
           IF fit.ier \in NormalReturn THEN <<>> ELSE SurfitWarning(fit.ier),
           calls, None)

\* a variant that runs the routine again after status 10 too
Lwrk2TooSmall_from10(ier) == ier >= 10

\* `if ier > 10`: lwrk2 was too small, the routine is run again
Lwrk2TooSmall(ier) == ier > 10

\* SmoothBivariateSpline.__init__
SmoothBivariateSpline_init(x, y, z, w, bbox, kx, ky, s, eps, out0, out1) ==
    IF Lwrk2TooSmall(out0.ier)
    THEN SmoothBivariateSpline_store(kx, ky, SurfFit(kx, ky, out1),
             <<Fit("surfit_smth", 1, <<>>, out0.ier),
               Fit("surfit_smth", out0.ier, <<>>, out1.ier)>>)
    ELSE SmoothBivariateSpline_store(kx, ky, SurfFit(kx, ky, out0),
             <<Fit("surfit_smth", 1, <<>>, out0.ier)>>)

\* a variant that reports the number of coefficients as the deficiency
LsqSurfitWarning_full(nx, ny, kx, ky, ier) ==
    IF ier < -2
    THEN <<Formatted("surfit", -3, <<(nx - kx - 1) * (ny - ky - 1)>>)>>
    ELSE <<MessagesGet("surfit", _surfit_messages, ier)>>

\* the warning LSQBivariateSpline issues for a status that is no normal return
LsqSurfitWarning(nx, ny, kx, ky, ier) ==
    IF ier < -2
    THEN <<Formatted("surfit", -3, <<(nx - kx - 1) * (ny - ky - 1) + ier>>)>>
    ELSE <<MessagesGet("surfit", _surfit_messages, ier)>>

\* LSQBivariateSpline.__init__ after the (last) surfit_lsq invocation
LSQBivariateSpline_store(nx, ny, kx, ky, fit, calls) ==
    Result(NewSurface("LSQBivariateSpline", fit.fp, fit.tx, fit.ty, fit.c,
                      <<kx, ky>>),
           NoExc,
           IF fit.ier \in NormalReturn THEN <<>>
           ELSE LsqSurfitWarning(nx, ny, kx, ky, fit.ier),
           calls, None)

\* LSQBivariateSpline.__init__ from the first surfit_lsq invocation on:
\* tx1, ty1 are the arrays handed to it, fit0 is what it returned
LSQBivariateSpline_fit(x, y, tx1, ty1, kx, ky, bbox, fit0, out1) ==
    IF Lwrk2TooSmall(fit0.ier)
    THEN LSQBivariateSpline_store(Len(tx1), Len(ty1), kx, ky,
             SurfLsq(x, y, fit0.tx, fit0.ty, kx, ky, bbox, out1),
             <<Fit("surfit_lsq", 1, <<tx1, ty1>>, fit0.ier),
               Fit("surfit_lsq", fit0.ier, <<fit0.tx, fit0.ty>>, out1.ier)>>)
    ELSE LSQBivariateSpline_store(Len(tx1), Len(ty1), kx, ky, fit0,
             <<Fit("surfit_lsq", 1, <<tx1, ty1>>, fit0.ier)>>)

\* LSQBivariateSpline.__init__ from the zero-padded knot arrays on
LSQBivariateSpline_padded(x, y, tx1, ty1, kx, ky, bbox, out0, out1) ==
    LSQBivariateSpline_fit(x, y, tx1, ty1, kx, ky, bbox,
                           SurfLsq(x, y, tx1, ty1, kx, ky, bbox, out0), out1)

\* LSQBivariateSpline.__init__
LSQBivariateSpline_init(x, y, z, tx, ty, w, bbox, kx, ky, eps, out0, out1) ==
    LSQBivariateSpline_padded(x, y,
                              ZerosWith(2 * kx + 2 + Len(tx), kx + 1, tx),
                              ZerosWith(2 * ky + 2 + Len(ty), ky + 1, ty),
                              kx, ky, bbox, out0, out1)

\* a variant that accepts repeated coordinates
NonDecreasing(x) == \A i \in 1..(Len(x) - 1) : ~PyGt(PySub(x[i], x[i + 1]), 0)

\* all(diff(x) > 0.0)
StrictlyIncreasing(x) == \A i \in 1..(Len(x) - 1) : PyGt(PySub(x[i + 1], x[i]), 0)

\* x.min() == x[0] and x.max() == x[-1]
EndsAreExtremes(x) ==
    /\ \A i \in 1..Len(x) : ~PyGt(x[1], x[i])
    /\ \A i \in 1..Len(x) : ~PyGt(x[i], x[Len(x)])

\* z.shape of a 2-D array held as a sequence of rows
Shape(z) == <<Len(z), Len(z[1])>>

\* the checks RectBivariateSpline.__init__ makes before the fit: the
\* exception raised, or NoExc
RectValidation(x, y, z) ==
    IF ~StrictlyIncreasing(x)
    THEN Raise("TypeError", Text("x must be strictly increasing"))
    ELSE IF ~StrictlyIncreasing(y)
    THEN Raise("TypeError", Text("y must be strictly increasing"))
    ELSE IF Len(x) = 0 \/ Len(y) = 0
    THEN Raise("ValueError", Text("zero-size array to reduction operation minimum"))
    ELSE IF ~EndsAreExtremes(x)
    THEN Raise("TypeError", Text("x must be strictly ascending"))
    ELSE IF ~EndsAreExtremes(y)
    THEN Raise("TypeError", Text("y must be strictly ascending"))
    ELSE IF Len(x) # Shape(z)[1]
    THEN Raise("TypeError",
               Text("x dimension of z must have same number of elements as x"))
    ELSE IF Len(y) # Shape(z)[2]
    THEN Raise("TypeError",
               Text("y dimension of z must have same number of elements as y"))
    ELSE NoExc

\* a grid constructor after its fitting routine returned: ValueError with
\* the table's message unless the status is a normal return
GridFitted(cls, tab, keys, kx, ky, fit, calls) ==
    IF fit.ier \notin NormalReturn
    THEN Result(NoObj, Raise("ValueError", MessagesGet(tab, keys, fit.ier)),
                <<>>, calls, None)
    ELSE Result(NewSurface(cls, fit.fp, Slice(fit.tx, 0, fit.nx),
                           Slice(fit.ty, 0, fit.ny),
                           Slice(fit.c, 0, (fit.nx - kx - 1) * (fit.ny - ky - 1)),
                           <<kx, ky>>),
                NoExc, <<>>, calls, None)

\* RectBivariateSpline.__init__
RectBivariateSpline_init(x, y, z, bbox, kx, ky, s, out) ==
    IF RectValidation(x, y, z) # NoExc
    THEN Result(NoObj, RectValidation(x, y, z), <<>>, <<>>, None)
    ELSE GridFitted("RectBivariateSpline", "surfit", _surfit_messages, kx, ky,
                    SurfFit(kx, ky, out), <<Fit("regrid_smth", 0, <<>>, out.ier)>>)

\* SmoothSphereBivariateSpline.__init__
SmoothSphereBivariateSpline_init(theta, phi, r, w, s, eps, out) ==
    GridFitted("SmoothSphereBivariateSpline", "spherefit", _spherefit_messages,
               3, 3, SurfFit(3, 3, out),
               <<Fit("spherfit_smth", 0, <<>>, out.ier)>>)

\* the knot array LSQSphereBivariateSpline hands to spherfit_lsq: zeros,
\* the knots given at [4:-4], `top` at [-4:]
SphereKnots(t, top) ==
    [i \in 1..(8 + Len(t)) |-> IF i > 4 + Len(t) THEN top
                               ELSE IF i > 4 THEN t[i - 4] ELSE 0]

\* LSQSphereBivariateSpline.__init__ after spherfit_lsq returned
LSQSphereBivariateSpline_store(nt_, np_, fit, calls) ==
    IF fit.ier < -2
    THEN Result(NewSurface("LSQSphereBivariateSpline", fit.fp, fit.tx, fit.ty,
                           fit.c, <<3, 3>>),
                NoExc,
                <<Formatted("spherefit", -3,
                            <<6 + (nt_ - 8) * (np_ - 7) + fit.ier, -fit.ier>>)>>,
                calls, None)
    ELSE IF fit.ier \notin NormalReturn
    THEN Result(NoObj,
                Raise("ValueError",
                      MessagesGet("spherefit", _spherefit_messages, fit.ier)),
                <<>>, calls, None)
    ELSE Result(NewSurface("LSQSphereBivariateSpline", fit.fp, fit.tx, fit.ty,
                           fit.c, <<3, 3>>),
                NoExc, <<>>, calls, None)

\* LSQSphereBivariateSpline.__init__
LSQSphereBivariateSpline_init(theta, phi, r, tt, tp, w, eps, out) ==
    LSQSphereBivariateSpline_store(8 + Len(tt), 8 + Len(tp),
        SurfLsq(theta, phi, SphereKnots(tt, PI), SphereKnots(tp, 2 * PI), 3, 3,
                <<Some(0), Some(PI), Some(0), Some(2 * PI)>>, out),
        <<Fit("spherfit_lsq", 0,
               <<SphereKnots(tt, PI), SphereKnots(tp, 2 * PI)>>, out.ier)>>)

\* the checks RectSphereBivariateSpline.__init__ makes before the fit;
\* pole_continuity and pole_flat are pairs of bools
RectSphereValidation(u, v, r, pole_continuity, pole_flat) ==
    IF ~StrictlyIncreasing(u)
    THEN Raise("TypeError", Text("u must be strictly increasing"))
    ELSE IF ~StrictlyIncreasing(v)
    THEN Raise("TypeError", Text("v must be strictly increasing"))
    ELSE IF Len(u) # Shape(r)[1]
    THEN Raise("TypeError",
               Text("u dimension of r must have same number of elements as u"))
    ELSE IF Len(v) # Shape(r)[2]
    THEN Raise("TypeError",
               Text("v dimension of r must have same number of elements as v"))
    ELSE IF ~pole_continuity[2] /\ pole_flat[2]
    THEN Raise("TypeError", Text("if pole_continuity is False, so must be pole_flat"))
    ELSE IF ~pole_continuity[1] /\ pole_flat[1]
    THEN Raise("TypeError", Text("if pole_continuity is False, so must be pole_flat"))
    ELSE NoExc

\* RectSphereBivariateSpline.__init__
RectSphereBivariateSpline_init(u, v, r, s, pole_continuity, pole_flat, out) ==
    IF RectSphereValidation(u, v, r, pole_continuity, pole_flat) # NoExc
    THEN Result(NoObj, RectSphereValidation(u, v, r, pole_continuity, pole_flat),
                <<>>, <<>>, None)
    ELSE GridFitted("RectSphereBivariateSpline", "spfit", _spfit_messages, 3, 3,
                    SurfFit(3, 3, out),
                    <<Fit("regrid_smth_spher", 0, <<>>, out.ier)>>)

---------------------------------------------------------------------------
(* Evaluation of bivariate splines. *)

\* np.broadcast_arrays on two 1-D arrays: possible when the lengths agree
\* or one of them is 1
Broadcastable(x, y) == Len(x) = Len(y) \/ Len(x) = 1 \/ Len(y) = 1
BroadcastSize(x, y) == IF Len(x) = 1 THEN Len(y) ELSE Len(x)

\* a variant in which a given mth is not warned about
MthWarning_never(mth) == <<>>

\* the warning for the deprecated mth argument
MthWarning(mth) ==
    IF mth # None
    THEN <<Text("The mth argument is deprecated and will be removed")>>
    ELSE <<>>

\* the evaluator _BivariateSplineBase.__call__ chooses
Evaluator(dx, dy, grid) ==
    IF grid THEN (IF dx # 0 \/ dy # 0 THEN "parder" ELSE "bispev")
    ELSE (IF dx # 0 \/ dy # 0 THEN "pardeu" ELSE "bispeu")

\* _BivariateSplineBase.__call__ from the invocation of the evaluator on
BivEvaluated(self, warns, f, x, y, ier) ==
    IF ier # 0
    THEN Result(self, Raise("ValueError", Formatted("Error code returned by", 0,
                                                    <<f, ier>>)),
                warns, <<Call(f, 0, <<x, y>>)>>, None)
    ELSE Result(self, NoExc, warns, <<Call(f, 0, <<x, y>>)>>,
                Some(Call(f, 0, <<x, y>>)))

\* _BivariateSplineBase.__call__; ier is the status the evaluator returns
Base__call__(self, x, y, mth, dx, dy, grid, ier) ==
    IF grid
    THEN IF Len(x) = 0 \/ Len(y) = 0
         THEN Result(self, NoExc, MthWarning(mth), <<>>,
                     Some(<<"zeros", Len(x), Len(y)>>))
         ELSE BivEvaluated(self, MthWarning(mth), Evaluator(dx, dy, grid), x, y, ier)
    ELSE IF ~Broadcastable(x, y)
    THEN Result(self, Raise("ValueError", Text("shape mismatch")),
                MthWarning(mth), <<>>, None)
    ELSE IF BroadcastSize(x, y) = 0
    THEN Result(self, NoExc, MthWarning(mth), <<>>, Some(<<"zeros", 0, 0>>))
    ELSE BivEvaluated(self, MthWarning(mth), Evaluator(dx, dy, grid),
                      Resize(x, BroadcastSize(x, y)),
                      Resize(y, BroadcastSize(x, y)), ier)

\* BivariateSpline.ev
BivariateSpline_ev(self, xi, yi, dx, dy, ier) ==
    Base__call__(self, xi, yi, None, dx, dy, FALSE, ier)

\* BivariateSpline.integral
BivariateSpline_integral(self, xa, xb, ya, yb) ==
    Result(self, NoExc, <<>>, <<Call("dblint", 0, <<self.tck.tx, self.tck.ty>>)>>,
           Some(Call("dblint", 0, <<self.tck.tx, self.tck.ty>>)))

\* _BivariateSplineBase.get_residual, get_knots, get_coeffs
Base_get_residual(self) == Result(self, NoExc, <<>>, <<>>, Some(self.fp))
Base_get_knots(self) ==
    Result(self, NoExc, <<>>, <<>>, Some(<<self.tck.tx, self.tck.ty>>))
Base_get_coeffs(self) == Result(self, NoExc, <<>>, <<>>, Some(self.tck.c))

\* a variant of the range test that rejects the upper end itself
OutOfBounds_open(a, top) == Len(a) > 0 /\ (SeqMin(a) < 0 \/ SeqMax(a) >= top)

\* a.size > 0 and (a.min() < 0. or a.max() > top)
OutOfBounds(a, top) == Len(a) > 0 /\ (SeqMin(a) < 0 \/ SeqMax(a) > top)

\* SphereBivariateSpline.__call__
Sphere__call__(self, theta, phi, dtheta, dphi, grid, ier) ==
    IF OutOfBounds(theta, PI)
    THEN Result(self, Raise("ValueError", Text("requested theta out of bounds.")),
                <<>>, <<>>, None)
    ELSE IF OutOfBounds(phi, 2 * PI)
    THEN Result(self, Raise("ValueError", Text("requested phi out of bounds.")),
                <<>>, <<>>, None)
    ELSE Base__call__(self, theta, phi, None, dtheta, dphi, grid, ier)

\* SphereBivariateSpline.ev
Sphere_ev(self, theta, phi, dtheta, dphi, ier) ==
    Sphere__call__(self, theta, phi, dtheta, dphi, FALSE, ier)

---------------------------------------------------------------------------
(* The state machine. *)

\* the record of an operation: its name, its arguments and what it did
Did(op, args, r) ==
    [op |-> op, args |-> args, exc |-> r.exc, warns |-> r.warns,
     calls |-> r.calls, ret |-> r.ret]

Init ==
    /\ obj = NoObj
    /\ last = [op |-> "init", args |-> None, exc |-> NoExc, warns |-> <<>>,
               calls |-> <<>>, ret |-> None]

\* nothing has been constructed or attempted yet
Fresh == obj = NoObj /\ last.op = "init"

\* the class instantiated by a constructor call: the class itself or a user
\* subclass that inherits its __init__
Instantiable(cls) == {cls, UserClass}

\* interior knots tried by LSQUnivariateSpline
KnotValues == {1, 2, 6}

RECURSIVE SeqsUpTo(_, _)
SeqsUpTo(S, len) ==
    IF len = 0 THEN {<<>>}
    ELSE LET shorter == SeqsUpTo(S, len - 1)
         IN  shorter \cup {Append(q, v) : q \in shorter, v \in S}

KnotArgs == SeqsUpTo(KnotValues, MaxKnots)

\* the constructor arguments tried: every combination (AllArgs), and the
\* few an object is followed from through its life (LifeArgs)
\* scattered data of a surface fit, and of a fit on the sphere
SurfData == [x |-> <<1, 2, 3, 4>>, y |-> <<4, 3, 2, 1>>, z |-> <<0, 1, 0, 1>>]
SphereData == [theta |-> <<1, 1, 2>>, phi |-> <<1, 3, 4>>, r |-> <<0, 1, 0>>]

Boxes == {<<None, None, None, None>>, <<Some(0), Some(9), Some(0), Some(9)>>}

\* coordinate arrays of a grid: every array of at most two coordinates
GridArrays == SeqsUpTo(0..MaxCoord, 2)

\* 2-D data arrays, by shape
Zeros(rows, cols) == [i \in 1..rows |-> [j \in 1..cols |-> 0]]
GridData == {Zeros(rows, cols) : rows \in 1..2, cols \in 1..2}

\* pole_continuity and pole_flat as pairs (a bool b stands for (b, b))
Flags == BOOLEAN \X BOOLEAN

AllArgs ==
    [ins |-> FitInputs, ks |-> Degrees, ss |-> SmoothingFactors,
     exts |-> ExtArgs, cfs |-> BOOLEAN, ts |-> KnotArgs,
     outs |-> UniOuts(CurfitStatuses),
     tys |-> {<<>>, <<2>>},
     boxes |-> Boxes, souts |-> SurfOuts(SurfStatuses), grids |-> GridArrays,
     zs |-> GridData, flags |-> Flags]

\* the statuses tried on an object followed through its life
LifeStatuses == CurfitStatuses
LifeSurfStatuses == {-3, 0, 1, 10, 12}

LifeArgs ==
    [ins |-> {in \in FitInputs : in.w = None}, ks |-> Degrees, ss |-> {None},
     exts |-> {PyStr("zeros")}, cfs |-> {FALSE},
     ts |-> {<<>>, <<2>>}, outs |-> UniOuts(LifeStatuses),
     tys |-> {<<>>}, boxes |-> {<<None, None, None, None>>},
     souts |-> SurfOuts(LifeSurfStatuses),
     grids |-> {<<0, 1>>, <<1, 0>>}, zs |-> {Zeros(2, 2)},
     flags |-> {<<FALSE, FALSE>>, <<FALSE, TRUE>>}]

UnivariateSplineInit(A) ==
    /\ Fresh
    /\ \E in \in A.ins, k \in A.ks, s \in A.ss, ext \in A.exts, cf \in A.cfs,
          cls \in Instantiable("UnivariateSpline"), out0 \in A.outs :
          \E out1 \in IF out0.ier = 1 THEN A.outs ELSE {out0} :
            \E r \in {UnivariateSpline_init(cls, in.x, in.y, in.w, in.bbox, k, s,
                                           ext, cf, out0, out1)} :
                /\ obj' = r.obj
                /\ last' = Did("UnivariateSpline",
                               [cls |-> cls, ext |-> ext, check_finite |-> cf,
                                k |-> k, t |-> <<>>, in |-> in],
                               r)

InterpolatedUnivariateSplineInit(A) ==
    /\ Fresh
    /\ \E in \in A.ins, k \in A.ks, ext \in A.exts, cf \in A.cfs,
          cls \in Instantiable("InterpolatedUnivariateSpline"),
          out0 \in A.outs :
            \E r \in {InterpolatedUnivariateSpline_init(cls, in.x, in.y, in.w,
                                                       in.bbox, k, ext, cf, out0)} :
                /\ obj' = r.obj
                /\ last' = Did("InterpolatedUnivariateSpline",
                               [cls |-> cls, ext |-> ext, check_finite |-> cf,
                                k |-> k, t |-> <<>>, in |-> in],
                               r)

LSQUnivariateSplineInit(A) ==
    /\ Fresh
    /\ \E in \in A.ins, k \in A.ks, ext \in A.exts, cf \in A.cfs,
          cls \in Instantiable("LSQUnivariateSpline"), t \in A.ts,
          chec \in {0, 10}, out0 \in A.outs :
            \E r \in {LSQUnivariateSpline_init(cls, in.x, in.y, t, in.w, in.bbox,
                                              k, ext, cf, chec, out0)} :
                /\ obj' = r.obj
                /\ last' = Did("LSQUnivariateSpline",
                               [cls |-> cls, ext |-> ext, check_finite |-> cf,
                                k |-> k, t |-> t, in |-> in],
                               r)

\* what the external routine can return, when it is reached at all
SolverOuts(reached, outs) ==
    IF reached THEN outs ELSE {CHOOSE out \in outs : TRUE}

SmoothBivariateSplineInit(A) ==
    /\ Fresh
    /\ \E kx \in A.ks, ky \in A.ks, s \in A.ss, bbox \in A.boxes,
          out0 \in A.souts :
          \E out1 \in IF Lwrk2TooSmall(out0.ier) THEN A.souts ELSE {out0} :
            \E r \in {SmoothBivariateSpline_init(SurfData.x, SurfData.y,
                          SurfData.z, None, bbox, kx, ky, s, None, out0, out1)} :
                /\ obj' = r.obj
                /\ last' = Did("SmoothBivariateSpline",
                               [kx |-> kx, ky |-> ky, bbox |-> bbox], r)

LSQBivariateSplineInit(A) ==
    /\ Fresh
    /\ \E kx \in A.ks, ky \in A.ks, tx \in A.ts, ty \in A.tys, bbox \in A.boxes,
          out0 \in A.souts :
          \E out1 \in IF Lwrk2TooSmall(out0.ier) THEN A.souts ELSE {out0} :
            \E r \in {LSQBivariateSpline_init(SurfData.x, SurfData.y, SurfData.z,
                          tx, ty, None, bbox, kx, ky, None, out0, out1)} :
                /\ obj' = r.obj
                /\ last' = Did("LSQBivariateSpline",
                               [kx |-> kx, ky |-> ky, tx |-> tx, ty |-> ty,
                                bbox |-> bbox], r)

RectBivariateSplineInit(A) ==
    /\ Fresh
    /\ \E x \in A.grids, y \in A.grids, z \in A.zs, kx \in A.ks :
          \E out \in SolverOuts(RectValidation(x, y, z) = NoExc, A.souts) :
            \E r \in {RectBivariateSpline_init(x, y, z, <<None, None, None, None>>,
                                              kx, kx, 0, out)} :
                /\ obj' = r.obj
                /\ last' = Did("RectBivariateSpline",
                               [x |-> x, y |-> y, z |-> z, kx |-> kx], r)

SmoothSphereBivariateSplineInit(A) ==
    /\ Fresh
    /\ \E out \in A.souts :
        \E r \in {SmoothSphereBivariateSpline_init(SphereData.theta,
                      SphereData.phi, SphereData.r, None, 0, None, out)} :
            /\ obj' = r.obj
            /\ last' = Did("SmoothSphereBivariateSpline", None, r)

LSQSphereBivariateSplineInit(A) ==
    /\ Fresh
    /\ \E tt \in A.ts, tp \in A.tys, out \in A.souts :
        \E r \in {LSQSphereBivariateSpline_init(SphereData.theta, SphereData.phi,
                      SphereData.r, tt, tp, None, None, out)} :
            /\ obj' = r.obj
            /\ last' = Did("LSQSphereBivariateSpline", [tt |-> tt, tp |-> tp], r)

RectSphereBivariateSplineInit(A) ==
    /\ Fresh
    /\ \E u \in A.grids, v \in A.grids, r0 \in A.zs, pc \in A.flags,
          pf \in A.flags :
          \E out \in SolverOuts(RectSphereValidation(u, v, r0, pc, pf) = NoExc,
                                A.souts) :
            \E r \in {RectSphereBivariateSpline_init(u, v, r0, 0, pc, pf, out)} :
                /\ obj' = r.obj
                /\ last' = Did("RectSphereBivariateSpline",
                               [u |-> u, v |-> v, r |-> r0, pole_continuity |-> pc,
                                pole_flat |-> pf], r)

IsSpline == obj.kind = "uni"

PlaneClasses ==
    {"SmoothBivariateSpline", "LSQBivariateSpline", "RectBivariateSpline"}
SphereClasses ==
    {"SmoothSphereBivariateSpline", "LSQSphereBivariateSpline",
     "RectSphereBivariateSpline"}

IsSurface == obj.kind = "biv"
IsPlane == IsSurface /\ obj.class \in PlaneClasses
IsSphere == IsSurface /\ obj.class \in SphereClasses

\* angles tried by the evaluation on the sphere: from below 0 to above 2*pi
AngleArrays == SeqsUpTo(-1..(2 * PI + 1), 2)

\* the evaluation arguments tried: coordinate arrays and derivative orders
AllCalls == [xs |-> GridArrays, angles |-> AngleArrays, ds |-> {0, 1}]
LifeCalls == [xs |-> {<<>>, <<1>>, <<1, 2>>},
              angles |-> {<<>>, <<1>>, <<3>>, <<1, 5>>}, ds |-> {0}]

BivCall(C) ==
    /\ IsPlane
    /\ \E x \in C.xs, y \in C.xs, mth \in {None, Some("array")}, dx \in C.ds,
          grid \in BOOLEAN, ier \in {0, 10} :
        \E r \in {Base__call__(obj, x, y, mth, dx, 0, grid, ier)} :
            /\ obj' = r.obj
            /\ last' = Did("BivariateSpline.__call__",
                           [x |-> x, y |-> y, mth |-> mth, dx |-> dx,
                            grid |-> grid, ier |-> ier], r)

BivEv(C) ==
    /\ IsPlane
    /\ \E x \in C.xs, y \in C.xs, dy \in C.ds, ier \in {0, 10} :
        \E r \in {BivariateSpline_ev(obj, x, y, 0, dy, ier)} :
            /\ obj' = r.obj
            /\ last' = Did("BivariateSpline.ev", [x |-> x, y |-> y], r)

BivIntegral ==
    /\ IsPlane
    /\ \E r \in {BivariateSpline_integral(obj, 0, 1, 0, 1)} :
           obj' = r.obj /\ last' = Did("BivariateSpline.integral", None, r)

BivGetResidual ==
    /\ IsSurface
    /\ \E r \in {Base_get_residual(obj)} :
           obj' = r.obj /\ last' = Did("_BivariateSplineBase.get_residual", None, r)

BivGetKnots ==
    /\ IsSurface
    /\ \E r \in {Base_get_knots(obj)} :
           obj' = r.obj /\ last' = Did("_BivariateSplineBase.get_knots", None, r)

BivGetCoeffs ==
    /\ IsSurface
    /\ \E r \in {Base_get_coeffs(obj)} :
           obj' = r.obj /\ last' = Did("_BivariateSplineBase.get_coeffs", None, r)

SphereCall(C) ==
    /\ IsSphere
    /\ \E theta \in C.angles, phi \in C.angles, dtheta \in C.ds,
          grid \in BOOLEAN, ier \in {0, 10} :
        \E r \in {Sphere__call__(obj, theta, phi, dtheta, 0, grid, ier)} :
            /\ obj' = r.obj
            /\ last' = Did("SphereBivariateSpline.__call__",
                           [theta |-> theta, phi |-> phi, grid |-> grid], r)

SphereEv(C) ==
    /\ IsSphere
    /\ \E theta \in C.angles, phi \in C.angles, dphi \in C.ds, ier \in {0, 10} :
        \E r \in {Sphere_ev(obj, theta, phi, 0, dphi, ier)} :
            /\ obj' = r.obj
            /\ last' = Did("SphereBivariateSpline.ev",
                           [theta |-> theta, phi |-> phi, grid |-> FALSE], r)

SetSmoothingFactor(outs) ==
    /\ IsSpline
    /\ \E s \in NewSmoothingFactors, fail \in {"none", "first", "rerun"} :
        \E out0 \in IF fail = "first" THEN {CHOOSE o \in outs : TRUE}
                     ELSE IF fail = "rerun" THEN {o \in outs : o.ier = 1}
                     ELSE outs :
          \E out1 \in IF fail = "none" /\ out0.ier = 1 THEN outs ELSE {out0} :
            \E r \in {set_smoothing_factor(obj, s, out0, out1, fail)} :
                /\ obj' = r.obj
                /\ last' = Did("set_smoothing_factor", [s |-> s], r)

Evaluate(xs, exts) ==
    /\ IsSpline
    /\ \E x \in xs, ext \in exts, ev \in {"ok", "error"} :
        \E r \in {__call__(obj, x, 0, ext, ev)} :
            /\ obj' = r.obj
            /\ last' = Did("__call__", [x |-> x, ext |-> ext], r)

GetKnots ==
    /\ IsSpline
    /\ \E r \in {get_knots(obj)} :
           obj' = r.obj /\ last' = Did("get_knots", None, r)

GetCoeffs ==
    /\ IsSpline
    /\ \E r \in {get_coeffs(obj)} :
           obj' = r.obj /\ last' = Did("get_coeffs", None, r)

GetResidual ==
    /\ IsSpline
    /\ \E r \in {get_residual(obj)} :
           obj' = r.obj /\ last' = Did("get_residual", None, r)

Integral ==
    /\ IsSpline
    /\ \E r \in {integral(obj, 0, 1)} :
           obj' = r.obj /\ last' = Did("integral", None, r)

Derivatives ==
    /\ IsSpline
    /\ \E ier \in {0, 10} :
        \E r \in {derivatives(obj, 3, ier)} :
            obj' = r.obj /\ last' = Did("derivatives", None, r)

Roots ==
    /\ IsSpline
    /\ \E m \in 1..2, ier \in {0, 10} :
        \E r \in {roots(obj, <<7, 8>>, m, ier)} :
            obj' = r.obj /\ last' = Did("roots", [m |-> m, ier |-> ier], r)

Derivative ==
    /\ IsSpline
    /\ \E n \in 1..2 :
        \E r \in {derivative(obj, n)} :
            obj' = r.obj /\ last' = Did("derivative", [n |-> n], r)

Antiderivative ==
    /\ IsSpline
    /\ \E r \in {antiderivative(obj, 1)} :
           obj' = r.obj /\ last' = Did("antiderivative", [n |-> 1], r)

\* the extrapolation arguments tried on an object followed through its life
LifeExts == {PyNone, PyInt(3), PyStr("bogus")}

Next ==
    \/ UnivariateSplineInit(LifeArgs)
    \/ InterpolatedUnivariateSplineInit(LifeArgs)
    \/ LSQUnivariateSplineInit(LifeArgs)
    \/ SmoothBivariateSplineInit(LifeArgs)
    \/ LSQBivariateSplineInit(LifeArgs)
    \/ RectBivariateSplineInit(LifeArgs)
    \/ SmoothSphereBivariateSplineInit(LifeArgs)
    \/ LSQSphereBivariateSplineInit(LifeArgs)
    \/ RectSphereBivariateSplineInit(LifeArgs)
    \/ SetSmoothingFactor(LifeArgs.outs)
    \/ Evaluate({<<3>>}, LifeExts)
    \/ GetKnots
    \/ GetCoeffs
    \/ GetResidual
    \/ Integral
    \/ Derivatives
    \/ Roots
    \/ Derivative
    \/ Antiderivative
    \/ BivCall(LifeCalls)
    \/ BivEv(LifeCalls)
    \/ BivIntegral
    \/ BivGetResidual
    \/ BivGetKnots
    \/ BivGetCoeffs
    \/ SphereCall(LifeCalls)
    \/ SphereEv(LifeCalls)

Spec == Init /\ [][Next]_vars

\* every combination of constructor arguments, one construction deep
NextCtor ==
    \/ UnivariateSplineInit(AllArgs)
    \/ InterpolatedUnivariateSplineInit(AllArgs)
    \/ LSQUnivariateSplineInit(AllArgs)
    \/ SmoothBivariateSplineInit(AllArgs)
    \/ LSQBivariateSplineInit(AllArgs)
    \/ RectBivariateSplineInit(AllArgs)
    \/ SmoothSphereBivariateSplineInit(AllArgs)
    \/ LSQSphereBivariateSplineInit(AllArgs)
    \/ RectSphereBivariateSplineInit(AllArgs)

SpecCtor == Init /\ [][NextCtor]_vars

\* the constructor arguments from which the evaluations are explored: every
\* ext, one data set, the statuses that end in an object
EvalArgs ==
    [AllArgs EXCEPT !.ins = {in \in FitInputs : in.w # None}, !.ks = {3},
                    !.ss = {None}, !.ts = {<<2>>},
                    !.outs = UniOuts({-2, 0}), !.souts = SurfOuts({-3, 0}),
                    !.grids = {<<0, 1>>}, !.zs = {Zeros(2, 2)},
                    !.flags = {<<FALSE, FALSE>>}]

Constructors ==
    BuiltinClasses \cup PlaneClasses \cup SphereClasses

\* the last operation was a constructor call
JustConstructed == last.op \in Constructors

\* every combination of evaluation arguments, tried once on each object
\* constructed
NextEval ==
    \/ UnivariateSplineInit(EvalArgs)
    \/ InterpolatedUnivariateSplineInit(EvalArgs)
    \/ LSQUnivariateSplineInit(EvalArgs)
    \/ SmoothSphereBivariateSplineInit(EvalArgs)
    \/ LSQSphereBivariateSplineInit(EvalArgs)
    \/ RectSphereBivariateSplineInit(EvalArgs)
    \/ JustConstructed /\ Evaluate({<<>>, <<3>>}, ExtArgs)
    \/ JustConstructed /\ SphereCall(AllCalls)
    \/ JustConstructed /\ SphereEv(AllCalls)

SpecEval == Init /\ [][NextEval]_vars

---------------------------------------------------------------------------
(* Properties. *)

\* the external fitting routines (fpchec only checks knots, it fits nothing)
FitRoutines ==
    {"fpcurf0", "fpcurf1", "fpcurfm1", "surfit_smth", "surfit_lsq",
     "regrid_smth", "spherfit_smth", "spherfit_lsq", "regrid_smth_spher"}

IsSolverCall(call) == call.f \in FitRoutines

\* the invocations of a fitting routine the last operation made, in order
SolverCalls == SelectSeq(last.calls, IsSolverCall)

\* the status returned by the last of them
FinalStatus == SolverCalls[Len(SolverCalls)].ier[1]

\* the last of them returned (a status) rather than raised
Returned == SolverCalls # <<>> /\ SolverCalls[Len(SolverCalls)].ier # None

\* the last operation was a constructor call or set_smoothing_factor
IsFitOp == last.op \in Constructors \cup {"set_smoothing_factor"}

\* C1: in every constructor and in set_smoothing_factor, a final solver
\* status of 10 makes the operation raise with the message registered for
\* code 10; a constructor leaves no object, set_smoothing_factor does not
\* store the rejected result.
C1_Status10Raises ==
    (IsFitOp /\ Returned /\ FinalStatus = 10)
        => /\ last.exc.type # "none"
           /\ last.exc.msg.code = 10
           /\ last.op \in Constructors => obj = NoObj
           /\ last.op = "set_smoothing_factor" => obj.data.ier # Some(10)

C1_Status10Accepted ==
    /\ last.op = "UnivariateSpline"
    /\ SolverCalls # <<>>
    /\ FinalStatus = 10
    /\ last.exc = NoExc
    /\ last.warns = <<Msg("curfit", 10)>>
    /\ obj # NoObj
    /\ obj.data.ier = Some(10)

\* C2: in every constructor, a final solver status of 1 to 5 gives a
\* warning and no exception, and the object holding the returned
\* representation is constructed (a constructor that got as far as
\* rejecting its ext argument is left aside).
C2_DegradedWarns ==
    (last.op \in Constructors /\ SolverCalls # <<>> /\ FinalStatus \in 1..5
        /\ last.exc # UnknownExt)
        => /\ last.exc = NoExc
           /\ last.warns # <<>>
           /\ obj # NoObj

C2_Status1Raised ==
    /\ last.op = "RectBivariateSpline"
    /\ SolverCalls # <<>>
    /\ FinalStatus = 1
    /\ last.exc = Raise("ValueError", Msg("surfit", 1))
    /\ last.warns = <<>>
    /\ obj = NoObj

\* C3 as stated: no constructor call and no set_smoothing_factor call
\* invokes a fitting routine more than once.
C3_NoRetry == IsFitOp => Len(SolverCalls) <= 1

\* C3, amended: a constructor call or set_smoothing_factor call invokes a
\* fitting routine at most twice; a second invocation happens only in
\* UnivariateSpline.__init__ and set_smoothing_factor after a first status
\* of 1, and in SmoothBivariateSpline and LSQBivariateSpline after a first
\* status above 10; every other constructor invokes it at most once.
C3_AtMostOneRerun ==
    IsFitOp =>
        /\ Len(SolverCalls) <= 2
        /\ Len(SolverCalls) = 2 =>
            \/ /\ last.op \in {"UnivariateSpline", "set_smoothing_factor"}
               /\ SolverCalls[1].ier = Some(1)
               /\ SolverCalls[2].f = "fpcurf1"
            \/ /\ last.op \in {"SmoothBivariateSpline", "LSQBivariateSpline"}
               /\ SolverCalls[1].ier[1] > 10
               /\ SolverCalls[2].f = SolverCalls[1].f

C3_Rerun ==
    /\ last.op = "set_smoothing_factor"
    /\ Len(SolverCalls) = 2
    /\ SolverCalls[1].ier = Some(1)

QueryOps ==
    {"__call__", "get_knots", "get_coeffs", "get_residual", "integral",
     "derivatives", "roots", "derivative", "antiderivative"}

\* C4: a step of __call__, get_knots, get_coeffs, get_residual, integral,
\* derivatives, roots, derivative or antiderivative on a univariate spline,
\* whether it returns or raises, leaves _data, _eval_args, ext and the
\* class as they were; so does every sequence of such steps.
C4_QueriesLeaveObject ==
    [][(IsSpline /\ last'.op \in QueryOps)
            => /\ obj'.data = obj.data
               /\ obj'.eval_args = obj.eval_args
               /\ obj'.ext = obj.ext
               /\ obj'.class = obj.class
               /\ obj'.spline_class = obj.spline_class]_vars

C4_QueryRaised ==
    /\ IsSpline
    /\ last.op = "derivative"
    /\ last.args.n = 2
    /\ obj.data.k = 1
    /\ last.exc.type = "ValueError"

\* the enumeration of the extrapolation modes: name i+1 has code i
ModeNames == <<"extrapolate", "zeros", "raise", "const">>

IsMode(ext) ==
    \/ ext.ty = "int" /\ ext.i \in 0..3
    \/ ext.ty = "str" /\ \E i \in 1..4 : ModeNames[i] = ext.s

ModeCode(ext) ==
    IF ext.ty = "int" THEN ext.i
    ELSE (CHOOSE i \in 1..4 : ModeNames[i] = ext.s) - 1

\* the exceptions a univariate constructor raises before it resolves ext
EarlierStages ==
    { Raise("ValueError", Text("x and y array must not contain NaNs or infs.")),
      Raise("ValueError", Text("Input must not contain NaNs or infs.")),
      Raise("ValueError", Text("Input(s) must not contain NaNs or infs.")),
      Raise("TypeError", Text("ufunc 'isfinite' not supported")),
      Raise("ValueError",
            Text("Interior knots t must satisfy Schoenberg-Whitney conditions")),
      Raise("ValueError", Text("_fpchec_error_string")) }

C6_CallExt ==
    [][(IsSpline /\ last'.op = "__call__")
            => /\ obj'.ext = obj.ext
               /\ last'.calls # <<>> =>
                    /\ last'.calls[1].f = "splev"
                    /\ last'.calls[1].arg =
                          IF last'.args.ext = PyNone THEN obj.ext[1]
                          ELSE ModeCode(last'.args.ext)]_vars

C6_Override ==
    /\ IsSpline
    /\ last.op = "__call__"
    /\ last.args.ext = PyInt(3)
    /\ last.calls # <<>>
    /\ last.calls[1].arg = 3
    /\ obj.ext = Some(1)

\* a < b on floats
FloatLt(a, b) == a # NaN /\ b # NaN /\ a < b

\* s[1] < s[2] < ... < s[Len(s)]
StrictChain(s) == \A i \in 1..(Len(s) - 1) : FloatLt(s[i], s[i + 1])

\* xb and xe of the last LSQUnivariateSpline call: the bbox ends, by default
\* x[0] and x[-1]
ArgXb == IF last.args.in.bbox[1] = None THEN last.args.in.x[1]
         ELSE last.args.in.bbox[1][1]
ArgXe == IF last.args.in.bbox[2] = None THEN last.args.in.x[Len(last.args.in.x)]
         ELSE last.args.in.bbox[2][1]

\* xb < t[0] < t[1] < ... < t[-1] < xe for the last LSQUnivariateSpline call
ArgChain == StrictChain(<<ArgXb>> \o last.args.t \o <<ArgXe>>)

InteriorKnotsError ==
    Raise("ValueError",
          Text("Interior knots t must satisfy Schoenberg-Whitney conditions"))

\* the exceptions of the check_finite test of LSQUnivariateSpline
FinitenessErrors ==
    { Raise("ValueError", Text("Input(s) must not contain NaNs or infs.")),
      Raise("TypeError", Text("ufunc 'isfinite' not supported")) }

\* C7: LSQUnivariateSpline with knots for which xb < t[0] < ... < t[-1] < xe
\* fails raises, constructs nothing and invokes neither fpchec nor fpcurfm1;
\* unless the check_finite test raised first, it raises the ValueError of
\* the knot check exactly when the chain fails.
C7_KnotsRejectedFirst ==
    last.op = "LSQUnivariateSpline" =>
        /\ ~ArgChain => /\ last.exc.type # "none"
                        /\ last.calls = <<>>
                        /\ obj = NoObj
        /\ last.exc \notin FinitenessErrors
               => (last.exc = InteriorKnotsError <=> ~ArgChain)
        /\ (~last.args.check_finite /\ ~ArgChain)
               => last.exc = InteriorKnotsError

C7_BoundaryKnotRejected ==
    /\ last.op = "LSQUnivariateSpline"
    /\ last.args.t = <<1>>
    /\ ArgXb = 1
    /\ last.exc = InteriorKnotsError
    /\ last.calls = <<>>

\* the grid checks of RectBivariateSpline on the arguments of its last call
GridRejected ==
    \/ ~StrictChain(last.args.x)
    \/ ~StrictChain(last.args.y)
    \/ Len(last.args.z) # Len(last.args.x)
    \/ Len(last.args.z[1]) # Len(last.args.y)

Outside(a, top) == \E i \in 1..Len(a) : a[i] < 0 \/ a[i] > top

SphereOps == {"SphereBivariateSpline.__call__", "SphereBivariateSpline.ev"}

OutOfBoundsErrors ==
    { Raise("ValueError", Text("requested theta out of bounds.")),
      Raise("ValueError", Text("requested phi out of bounds.")) }

\* C9: __call__ and ev of a spline on the sphere, given a theta with an
\* entry outside [0, pi] or a phi with an entry outside [0, 2*pi], raise
\* the ValueError of the range check without invoking an evaluator; angles
\* within the ranges, the ends 0, pi and 2*pi included, and empty arrays
\* pass the range check.
C9_AnglesChecked ==
    last.op \in SphereOps =>
        /\ (Outside(last.args.theta, PI) \/ Outside(last.args.phi, 2 * PI))
               => /\ last.exc \in OutOfBoundsErrors
                  /\ last.calls = <<>>
                  /\ last.ret = None
        /\ (~Outside(last.args.theta, PI) /\ ~Outside(last.args.phi, 2 * PI))
               => last.exc \notin OutOfBoundsErrors
        /\ (last.args.theta = <<>> /\ last.args.phi = <<>>)
               => last.exc = NoExc

C9_ThetaOutOfRange ==
    /\ last.op = "SphereBivariateSpline.ev"
    /\ last.args.theta = <<1, PI + 1>>
    /\ last.args.phi = <<0, 2 * PI>>
    /\ last.exc = Raise("ValueError", Text("requested theta out of bounds."))
    /\ last.calls = <<>>

\* C10: the knot vector LSQUnivariateSpline hands to fpchec and fpcurfm1,
\* for M interior knots and degree k, has length M + 2(k+1), its first k+1
\* entries equal xb, its last k+1 entries equal xe, the interior knots are
\* at positions k+1 .. n-k-2 in the order given, and it is non-decreasing.
C10_KnotVector ==
    last.op = "LSQUnivariateSpline" =>
        \A j \in 1..Len(last.calls) :
            LET t == last.calls[j].t
                k == last.args.k
                M == Len(last.args.t)
            IN  /\ Len(t) = M + 2 * (k + 1)
                /\ \A i \in 0..k : t[i + 1] = ArgXb
                /\ \A i \in (Len(t) - k - 1)..(Len(t) - 1) : t[i + 1] = ArgXe
                /\ \A i \in (k + 1)..(Len(t) - k - 2) :
                       t[i + 1] = last.args.t[i - k]
                /\ \A i \in 1..(Len(t) - 1) : t[i] <= t[i + 1]

C10_TwoKnotsHandedOver ==
    /\ last.op = "LSQUnivariateSpline"
    /\ last.args.t = <<1, 2>>
    /\ last.args.k = 3
    /\ Len(last.calls) = 2
    /\ last.calls[2].f = "fpcurfm1"
    /\ last.calls[2].t = <<0, 0, 0, 0, 1, 2, 6, 6, 6, 6>>

\* C11: on a fitted univariate spline with stored knot count n and degree
\* k, after construction and after any set_smoothing_factor calls,
\* get_coeffs returns the first n-k-1 stored coefficients and get_knots the
\* n-2k stored knots at positions k .. n-k-1, so the stored knot vector has
\* 2k boundary knots more than get_knots returns.
C11_KnotAndCoefficientCounts ==
    /\ (IsSpline /\ last.op = "get_coeffs") =>
        /\ last.exc = NoExc
        /\ Len(last.ret[1]) = obj.data.n - obj.data.k - 1
        /\ \A i \in 1..(obj.data.n - obj.data.k - 1) :
               last.ret[1][i] = obj.data.c[i]
    /\ (IsSpline /\ last.op = "get_knots") =>
        /\ last.exc = NoExc
        /\ Len(last.ret[1]) = obj.data.n - 2 * obj.data.k
        /\ \A i \in 1..(obj.data.n - 2 * obj.data.k) :
               last.ret[1][i] = obj.data.t[obj.data.k + i]

C11_KnotsAfterRefit ==
    /\ IsSpline
    /\ last.op = "get_knots"
    /\ obj.data.s = Some(2)
    /\ obj.data.k = 3
    /\ obj.data.n = 8
    /\ Len(obj.data.t) > 8
    /\ Len(last.ret[1]) = 2

UnivariateFitOps == BuiltinClasses \cup {"set_smoothing_factor"}

\* C12: a construction or set_smoothing_factor call that ran the solver on
\* an object whose class is one of the three univariate classes leaves the
\* class InterpolatedUnivariateSpline after a final status of -1 and
\* LSQUnivariateSpline after -2 or 1; status 1 also warns, -1 and -2 do
\* not; status 0 gives no warning and leaves the class as it was.
C12_Retagging ==
    [][LET before == IF last'.op = "set_smoothing_factor" THEN obj.class
                     ELSE last'.args.cls
       IN  (/\ last'.op \in UnivariateFitOps
            /\ last'.exc = NoExc
            /\ SolverCalls' # <<>>
            /\ before \in BuiltinClasses)
           => /\ FinalStatus' = -1
                  => /\ obj'.class = "InterpolatedUnivariateSpline"
                     /\ last'.warns = <<>>
              /\ FinalStatus' = -2
                  => /\ obj'.class = "LSQUnivariateSpline"
                     /\ last'.warns = <<>>
              /\ FinalStatus' = 1
                  => /\ obj'.class = "LSQUnivariateSpline"
                     /\ last'.warns = <<Msg("curfit", 1)>>
              /\ FinalStatus' = 0
                  => /\ obj'.class = before
                     /\ last'.warns = <<>>]_vars

C12_RetaggedWithWarning ==
    /\ last.op = "set_smoothing_factor"
    /\ Len(SolverCalls) = 2
    /\ Returned
    /\ FinalStatus = 1
    /\ obj.class = "LSQUnivariateSpline"
    /\ last.warns = <<Msg("curfit", 1)>>

\* C13: set_smoothing_factor(s) on a spline whose stored smoothing factor
\* is -1 warns, invokes no solver and leaves the object as it was; on any
\* other spline it invokes fpcurf1 on the stored data and arrays (the knots
\* found before) with the new s, and when the solver returns the object
\* then holds the data of the last invocation (its s, its status) and the
\* evaluation triple made from them, with ext unchanged.
C13_SetSmoothingFactor ==
    [][last'.op = "set_smoothing_factor" =>
        IF obj.data.s = Some(-1)
        THEN /\ obj' = obj
             /\ last'.calls = <<>>
             /\ last'.exc = NoExc
             /\ Len(last'.warns) = 1
        ELSE /\ last'.calls # <<>>
             /\ last'.calls[1].f = "fpcurf1"
             /\ last'.calls[1].arg = Len(obj.data.t)
             /\ last'.exc = NoExc =>
                 /\ obj'.data.s = Some(last'.args.s)
                 /\ obj'.data.ier = Some(FinalStatus')
                 /\ obj'.data.x = obj.data.x
                 /\ obj'.data.y = obj.data.y
                 /\ obj'.data.k = obj.data.k
                 /\ obj'.eval_args.t = Slice(obj'.data.t, 0, obj'.data.n)
                 /\ obj'.eval_args.c = Slice(obj'.data.c, 0, obj'.data.n)
                 /\ obj'.ext = obj.ext]_vars

C13_FixedKnotsUnchanged ==
    /\ last.op = "set_smoothing_factor"
    /\ obj.data.s = Some(-1)
    /\ last.calls = <<>>
    /\ last.warns =
           <<Text("smoothing factor unchanged forLSQ spline with fixed knots")>>

\* C14: roots() on a spline whose stored degree is not 3 raises
\* NotImplementedError and does not invoke the root finder; on a cubic
\* spline it invokes the root finder once and returns exactly the first m
\* entries of its output array when its status is 0, and raises ValueError
\* when its status is not 0.
RootFinderOutput == <<7, 8>>
C14_Roots ==
    last.op = "roots" =>
        IF obj.data.k # 3
        THEN /\ last.exc # NoExc
             /\ last.exc.type = "NotImplementedError"
             /\ last.calls = <<>>
        ELSE /\ Len(last.calls) = 1
             /\ last.calls[1].f = "sproot"
             /\ IF last.args.ier = 0
                THEN /\ last.exc = NoExc
                     /\ last.ret = Some(Slice(RootFinderOutput, 0, last.args.m))
                ELSE /\ last.exc # NoExc
                     /\ last.exc.type = "ValueError"
                     /\ last.ret = None

C14_FirstRootOnly ==
    /\ last.op = "roots"
    /\ obj.data.k = 3
    /\ last.args.ier = 0
    /\ last.args.m = 1
    /\ last.ret = Some(<<7>>)

\* C15: a derivative(n) or antiderivative(n) call that returns leaves the
\* receiver as it was (data, evaluation triple, ext and class) and returns
\* a spline of class exactly UnivariateSpline, whatever the class of the
\* receiver, whose ext is the receiver's ext, whose evaluation triple is the
\* transformed tck (degree k - n or k + n) and whose stored degree and knot
\* count are those of that tck.
C15_NewSpline ==
    [][(last'.op \in {"derivative", "antiderivative"} /\ last'.exc = NoExc) =>
        LET new == last'.ret[1]
            n == last'.args.n
            tck == IF last'.op = "derivative" THEN splder(obj.eval_args, n)
                                             ELSE splantider(obj.eval_args, n)
        IN  /\ obj' = obj
            /\ new.class = "UnivariateSpline"
            /\ new.ext = obj.ext
            /\ new.eval_args = tck
            /\ new.data.k = tck.k
            /\ tck.k = IF last'.op = "derivative" THEN obj.eval_args.k - n
                                                  ELSE obj.eval_args.k + n
            /\ new.data.n = Len(tck.t)
            /\ new.data.t = tck.t]_vars

C15_DerivativeOfSubclass ==
    /\ last.op = "derivative"
    /\ last.exc = NoExc
    /\ obj.class = UserClass
    /\ obj.ext = Some(1)
    /\ last.ret[1].class = "UnivariateSpline"
    /\ last.ret[1].ext = obj.ext
    /\ last.ret[1].data.k = obj.data.k - 2

\* the arrays a univariate constructor was given: x, y, w when it is not
\* None, and t for LSQUnivariateSpline
SuppliedArrays ==
    <<last.args.in.x, last.args.in.y>>
        \o last.args.in.w
        \o (IF last.op = "LSQUnivariateSpline" THEN <<last.args.t>> ELSE <<>>)

SomeArrayNotFinite ==
    \E i \in 1..Len(SuppliedArrays) : ~AllFinite(SuppliedArrays[i])

\* the ValueError of the check_finite test of each constructor
FinitenessValueErrors ==
    { Raise("ValueError", Text("x and y array must not contain NaNs or infs.")),
      Raise("ValueError", Text("Input must not contain NaNs or infs.")),
      Raise("ValueError", Text("Input(s) must not contain NaNs or infs.")) }

\* C16: with check_finite=True each of the three univariate constructors
\* raises the ValueError of the finiteness check, before any solver call,
\* exactly when one of the arrays it was given (x, y, w, and t for
\* LSQUnivariateSpline) holds a NaN or an infinity; when every array given
\* is finite, w=None included, the check raises nothing: no ValueError of
\* the check and no TypeError.
C16_FinitenessCheck ==
    (last.op \in BuiltinClasses /\ last.args.check_finite) =>
        /\ SomeArrayNotFinite => /\ last.exc \in FinitenessValueErrors
                                 /\ last.calls = <<>>
        /\ ~SomeArrayNotFinite => /\ last.exc \notin FinitenessValueErrors
                                  /\ last.exc.type # "TypeError"

C16_TypeErrorOnDefaultWeights ==
    /\ last.op = "InterpolatedUnivariateSpline"
    /\ last.args.check_finite
    /\ last.args.in.w = None
    /\ ~SomeArrayNotFinite
    /\ last.exc.type = "TypeError"
    /\ last.calls = <<>>
    /\ obj = NoObj

\* C17: a bivariate __call__ with any mth does what the same call with
\* mth=None does on the same object: the object after it, the evaluator
\* invoked and its arguments, the value returned and the exception raised
\* are the same; the call with mth=None warns nothing and the call with an
\* mth that is not None issues exactly the deprecation warning.
C17_MthHasNoEffect ==
    [][last'.op = "BivariateSpline.__call__" =>
        LET a == last'.args
            plain == Base__call__(obj, a.x, a.y, None, a.dx, 0, a.grid, a.ier)
        IN  /\ obj' = plain.obj
            /\ last'.calls = plain.calls
            /\ last'.ret = plain.ret
            /\ last'.exc = plain.exc
            /\ plain.warns = <<>>
            /\ last'.warns =
                   IF a.mth = None THEN <<>>
                   ELSE <<Text("The mth argument is deprecated and will be removed")>>]_vars

C17_MthWarned ==
    /\ last.op = "BivariateSpline.__call__"
    /\ last.args.mth # None
    /\ last.warns = <<Text("The mth argument is deprecated and will be removed")>>
    /\ last.exc = NoExc
    /\ Len(last.calls) = 1
    /\ last.calls[1].f = "bispev"

\* C18: a call of one of the three univariate constructors with an ext
\* that is no mode raises, constructs nothing, and has invoked no fitting
\* routine when it raises.
C18_ExtRejectedFirst ==
    (last.op \in BuiltinClasses /\ ~IsMode(last.args.ext)) =>
        /\ last.exc.type # "none"
        /\ obj = NoObj
        /\ SolverCalls = <<>>

C18_SolverRanBeforeExtRejected ==
    /\ last.op = "InterpolatedUnivariateSpline"
    /\ last.args.ext = PyStr("bogus")
    /\ last.exc = UnknownExt
    /\ Len(SolverCalls) = 1
    /\ SolverCalls[1].f = "fpcurf0"
    /\ obj = NoObj

\* the class _reset_class hands to _set_class for a status, "none" when it
\* does not call _set_class
TargetClass(ier) ==
    IF ier = -1 THEN "InterpolatedUnivariateSpline"
    ELSE IF ier \in {-2, 1} THEN "LSQUnivariateSpline"
    ELSE "none"

\* C19: an object constructed as an instance of a user subclass has the
\* user subclass as its class after the constructor and after every later
\* operation, set_smoothing_factor with any statuses included; when the
\* final status of a fit is -1, -2 or 1 the target class is recorded in
\* _spline_class all the same; and whenever the class of an object changes,
\* the class before was one of the three built-in classes.
C19_UserClassKept ==
    [][/\ (last'.op \in BuiltinClasses /\ last'.args.cls = UserClass /\ obj' # NoObj)
            => obj'.class = UserClass
       /\ (IsSpline /\ obj.class = UserClass) => (obj' # NoObj /\ obj'.class = UserClass)
       /\ (/\ last'.op \in UnivariateFitOps
           /\ obj' # NoObj
           /\ Returned'
           /\ TargetClass(FinalStatus') # "none")
            => obj'.spline_class = TargetClass(FinalStatus')
       /\ (IsSpline /\ obj' # NoObj /\ obj'.class # obj.class)
            => obj.class \in BuiltinClasses]_vars

C19_SubclassTaggedOnly ==
    /\ last.op = "set_smoothing_factor"
    /\ obj.class = UserClass
    /\ Returned
    /\ FinalStatus = 1
    /\ obj.spline_class = "LSQUnivariateSpline"

\* C20: each set_smoothing_factor call on an object of a built-in class
\* leaves the object with the class mapped from the status its fit ended
\* with (the status _reset_class reads) when that status is -1, -2 or 1,
\* and with the class it had before the call when that status is 0, 2, 3
\* or 10 or when the call ran no fit to its end; the class before the first call is
\* the one the constructor left by the same rule. So along any sequence of
\* calls the class is the one mapped from the most recent such status in
\* {-1, -2, 1}, or the class constructed with when there was none.
C20_ClassFollowsLastTaggingStatus ==
    [][/\ (last'.op \in BuiltinClasses /\ last'.args.cls \in BuiltinClasses /\ obj' # NoObj)
            => obj'.class = IF TargetClass(FinalStatus') # "none"
                            THEN TargetClass(FinalStatus') ELSE last'.args.cls
       /\ (last'.op = "set_smoothing_factor" /\ obj.class \in BuiltinClasses)
            => /\ obj' # NoObj
               /\ obj'.class \in BuiltinClasses
               /\ IF ~Returned' THEN obj'.class = obj.class
                  ELSE /\ FinalStatus' \in CurfitStatuses
                       /\ FinalStatus' \in {-1, -2, 1}
                              => obj'.class = TargetClass(FinalStatus')
                       /\ FinalStatus' \in {0, 2, 3, 10}
                              => obj'.class = obj.class]_vars

C20_TagSurvivesStatus3 ==
    /\ last.op = "set_smoothing_factor"
    /\ obj.class = "InterpolatedUnivariateSpline"
    /\ Returned
    /\ FinalStatus = 3
    /\ obj.data.s = Some(2)

\* the operations that run a fit again
UnivariateRefitOps == {"UnivariateSpline", "set_smoothing_factor"}
SurfaceRefitOps == {"SmoothBivariateSpline", "LSQBivariateSpline"}

EvaluatingOps ==
    {"__call__", "integral", "derivatives", "roots", "derivative", "antiderivative"}

\* the evaluation triple made from the data stored in the object
TripleOfData ==
    [t |-> Slice(obj.data.t, 0, obj.data.n),
     c |-> Slice(obj.data.c, 0, obj.data.n), k |-> obj.data.k]

\* C22: a univariate object, after the constructor that made it and after
\* every set_smoothing_factor call and every other operation on it, has
\* _eval_args == (t[:n], c[:n], k) for the t, c, n, k held in _data; an
\* evaluating method that invokes an external routine hands it the knots of
\* that triple, those of the fit stored last.
C22_EvalArgsConsistent ==
    IsSpline =>
        /\ obj.eval_args = TripleOfData
        /\ (last.op \in EvaluatingOps /\ last.calls # <<>>)
               => last.calls[1].t = TripleOfData.t

C22_EvaluatedAfterRefit ==
    /\ IsSpline
    /\ last.op = "integral"
    /\ obj.data.s = Some(2)
    /\ obj.data.n < Len(obj.data.t)
    /\ Len(last.calls) = 1
    /\ last.calls[1].t = Slice(obj.data.t, 0, obj.data.n)

\* C23: a set_smoothing_factor call that raises, because fpcurf1 raised in
\* set_smoothing_factor itself or in the re-run of _reset_nest, leaves
\* _data, _eval_args, ext and the class of the object exactly as they were
\* before the call.
C23_AtomicOnSolverFailure ==
    [][(last'.op = "set_smoothing_factor" /\ last'.exc # NoExc)
            => /\ last'.exc = SolverError
               /\ obj' # NoObj
               /\ obj'.data = obj.data
               /\ obj'.eval_args = obj.eval_args
               /\ obj'.ext = obj.ext
               /\ obj'.class = obj.class
               /\ obj'.spline_class = obj.spline_class]_vars

C23_RerunRaised ==
    /\ last.op = "set_smoothing_factor"
    /\ last.exc = SolverError
    /\ Len(last.calls) = 2
    /\ last.calls[1].ier = Some(1)
    /\ last.calls[2].ier = None
    /\ obj.data.s = Some(5)
    /\ obj.data.ier # Some(1)

\* the codes that have a message in _surfit_messages
SurfitCodes == {1, 2, 3, 4, 5, 10, -3}

\* C24: LSQBivariateSpline reaches the solver and never raises, whatever
\* the status of its last invocation: 0, -1 and -2 give no warning; a
\* status below -2 gives the message of code -3 formatted with
\* (nx-kx-1)*(ny-ky-1) + ier, where nx = 2*kx+2+len(tx) and
\* ny = 2*ky+2+len(ty); any other status gives its table message, or
\* 'ier=<code>' when the table has none. The object constructed holds the
\* degrees given and knot vectors of lengths nx and ny, and the vectors
\* handed to the solver have lengths nx and ny with the caller's interior
\* knots at positions kx+1 .. nx-kx-2 and ky+1 .. ny-ky-2 (counted from 0).
C24_LsqSurface ==
    last.op = "LSQBivariateSpline" =>
        LET kx == last.args.kx
            ky == last.args.ky
            tx == last.args.tx
            ty == last.args.ty
            nx == 2 * kx + 2 + Len(tx)
            ny == 2 * ky + 2 + Len(ty)
            tx1 == SolverCalls[1].t[1]
            ty1 == SolverCalls[1].t[2]
            ier == FinalStatus
        IN  /\ SolverCalls # <<>>
            /\ last.exc = NoExc
            /\ obj # NoObj
            /\ ier \in {0, -1, -2} => last.warns = <<>>
            /\ ier < -2 =>
                 last.warns =
                     <<Formatted("surfit", -3, <<(nx - kx - 1) * (ny - ky - 1) + ier>>)>>
            /\ (ier > 0 /\ ier \in SurfitCodes) => last.warns = <<Msg("surfit", ier)>>
            /\ (ier > 0 /\ ier \notin SurfitCodes) => last.warns = <<Msg("ier=", ier)>>
            /\ obj.degrees = <<kx, ky>>
            /\ Len(obj.tck.tx) = nx
            /\ Len(obj.tck.ty) = ny
            /\ Len(tx1) = nx
            /\ Len(ty1) = ny
            /\ \A i \in 1..Len(tx) : tx1[kx + 1 + i] = tx[i]
            /\ \A i \in 1..Len(ty) : ty1[ky + 1 + i] = ty[i]

C24_DeficiencyWarned ==
    /\ last.op = "LSQBivariateSpline"
    /\ last.args.kx = 3
    /\ last.args.ky = 1
    /\ last.args.tx = <<1, 2>>
    /\ last.args.ty = <<2>>
    /\ FinalStatus = -4
    /\ last.exc = NoExc
    /\ last.warns = <<Formatted("surfit", -3, <<14>>)>>

====
